---- MODULE Spec2Model ----
(***************************************************************************)
(* A model of the two utilities of the repository:                         *)
(*   - user_manager.py : UserManager, a list of user records mirrored to a *)
(*     JSON file on every mutation;                                        *)
(*   - list_ops.py     : remove_duplicates / remove_duplicates_simple.     *)
(* Spec       is the UserManager state machine, started on an empty store. *)
(* SpecLoad   starts it on a data file left by an earlier run or by hand,  *)
(*            and lets the manager be constructed again on its file.       *)
(* SpecCaller adds the read-only methods whose result the caller holds.    *)
(* SpecQuery  adds the query methods.                                      *)
(* SpecDedup  applies the deduplication functions to bounded input lists.  *)
(***************************************************************************)
EXTENDS Integers, Sequences, FiniteSets, TLC

VARIABLES
    users_list,   \* UserManager.users_list: sequence of user records
    file,         \* content of UserManager.data_file on disk
    now,          \* the clock read by datetime.now()
    call,         \* the last operation called on the manager, with its arguments
    ret,          \* what that call gave its caller: a return value or an exception
    deleted,      \* history: the ids k removed so far by a successful delete_user(k)
    all_users,    \* the list get_all_users gave the caller, while the caller holds it
    csv_file,     \* the output file of the export_users_to_csv call just made
    answer,       \* what the query method just called returned
    my_list,      \* list_ops: the argument of the deduplication call
    result        \* list_ops: outcome of the deduplication call

vars == <<users_list, file, now, call, ret, deleted, all_users, csv_file,
          answer, my_list, result>>

storeVars == <<users_list, file, now, call, ret, deleted>>
callerVars == <<all_users, csv_file, answer>>
dedupVars == <<my_list, result>>

----------------------------------------------------------------------------
(* Bounds of the model.                                                    *)

\* datetime.now() is read at most MaxClock times (one read per successful
\* validation in add_user), which also bounds the number of insertions.
MaxClock == 3

\* user ids passed to get/update/delete range over 1..MaxId
MaxId == 2

\* longest input list given to remove_duplicates
MaxLen == 3

----------------------------------------------------------------------------
(* Input domains.                                                          *)

\* user_name arguments: the empty string and a non-empty name
Names == {"", "An"}

\* user_email arguments: empty, and two addresses differing only in case
Emails == {"", "an@example.com", "AN@example.com"}

\* user_age arguments, tagged with their Python type: isinstance(x, int)
\* holds for "int"; a "str" age is the non-integer case.
Ages == {[t |-> "int", v |-> -1], [t |-> "int", v |-> 30], [t |-> "str", v |-> 30]}

\* outcome of writing the data file inside save_users:
\*   "ok"          open() and json.dump() both succeed
\*   "open_fails"  open(..., 'w') raises IOError (e.g. permission denied)
\*   "write_fails" open() truncated the file, then a write raises IOError
IoOutcomes == {"ok", "open_fails", "write_fails"}

----------------------------------------------------------------------------
(* JSON encoding of the user list (json.dump / json.load).                 *)

\* datetime.isoformat(): the timestamp t rendered as a string
isoformat(t) == <<"iso8601", t>>

\* an encoder that writes every boolean as true
JsonBool_always_true(b) == [j |-> "true", v |-> 0]

\* a Python scalar as the JSON value json.dump writes for it
JsonNumber(n) == [j |-> "number", v |-> n]
JsonString(s) == [j |-> "string", v |-> s]
JsonBool(b)   == [j |-> IF b THEN "true" ELSE "false", v |-> 0]

\* one user dict as a JSON object
json_dump_user(u) ==
    [id           |-> JsonNumber(u.id),
     name         |-> JsonString(u.name),
     email        |-> JsonString(u.email),
     age          |-> JsonNumber(u.age),
     created_date |-> JsonString(u.created_date),
     is_active    |-> JsonBool(u.is_active)]

\* a list element that is a dict (a user) rather than a plain value: plain
\* values, which only a data file not written by this program can bring
\* in, are tagged [py |-> type, v |-> value]
IsDict(u) == "py" \notin DOMAIN u

\* one element of the list as json.dump writes it
json_dump_element(u) ==
    IF IsDict(u) THEN json_dump_user(u) ELSE JsonNumber(u.v)

\* json.dump(self.users_list, ...): a JSON array, in list order
json_dump(users) == [i \in 1..Len(users) |-> json_dump_element(users[i])]

\* a JSON scalar as the Python value json.load builds from it
json_load_value(x) ==
    CASE x.j = "true"  -> TRUE
      [] x.j = "false" -> FALSE
      [] OTHER         -> x.v

\* one JSON object back as a user dict
json_load_user(o) ==
    [id           |-> json_load_value(o.id),
     name         |-> json_load_value(o.name),
     email        |-> json_load_value(o.email),
     age          |-> json_load_value(o.age),
     created_date |-> json_load_value(o.created_date),
     is_active    |-> json_load_value(o.is_active)]

\* one element of a JSON array as json.load builds it: a dict for an
\* object, an int for a number
json_load_element(x) ==
    IF "j" \in DOMAIN x THEN [py |-> "int", v |-> json_load_value(x)]
    ELSE json_load_user(x)

\* json.load(file) on a JSON array
json_load(data) == [i \in 1..Len(data) |-> json_load_element(data[i])]

\* file contents: no file, text that is not valid JSON, or a JSON document
FileAbsent  == [kind |-> "absent",  data |-> <<>>]
FileCorrupt == [kind |-> "corrupt", data |-> <<>>]
FileJson(d) == [kind |-> "json",    data |-> d]

----------------------------------------------------------------------------
(* UserManager.                                                            *)

\* load_users: the list the constructor ends up with for a given file
load_users(f) ==
    IF f.kind = "json" THEN json_load(f.data)
    ELSE <<>>     \* FileNotFoundError / JSONDecodeError: empty list

\* a load without the `except json.JSONDecodeError` clause
load_users_raises_on_corrupt(f) == f.kind = "corrupt"

\* load_users, outcome for the caller: every exception is caught
load_users_raises(f) == FALSE

\* a save that writes the list even when it goes on to raise
save_users_file_writes_anyway(users, f, io) == FileJson(json_dump(users))

\* a save that opens the file in append mode: what the file held stays in
\* front of the new array
save_users_file_append_mode(users, f, io) ==
    CASE io = "ok" -> IF f.kind = "absent" THEN FileJson(json_dump(users))
                      ELSE FileCorrupt
      [] OTHER -> f

\* a save that never touches the file
save_users_file_skipped(users, f, io) == f

\* save_users, effect on the file: the whole list is rewritten, or the
\* file is left alone (open failed), or left truncated (write failed)
save_users_file(users, f, io) ==
    CASE io = "ok"          -> FileJson(json_dump(users))
      [] io = "open_fails"  -> f
      [] io = "write_fails" -> FileCorrupt

\* a save that prints the error and swallows it
save_users_swallows(io) == FALSE

\* save_users, outcome for the caller: the IOError is re-raised
save_users_raises(io) == io # "ok"

\* the result a mutating method gives once save_users has run
AfterSave(io, value) == IF save_users_raises(io) THEN "IOError" ELSE value

\* the arguments of a call, recorded for the caller's view of it; io is
\* "none" when the call never reached save_users
NoArgs == [op |-> "init", name |-> "", email |-> "", age |-> [t |-> "int", v |-> 0],
           id |-> 0, status |-> FALSE, io |-> "none",
           min_age |-> 0, max_age |-> 0, search_term |-> ""]

\* the caller holds no list from get_all_users
NotHeld == [held |-> FALSE, items |-> <<>>]

\* no export has been made: its output file does not exist
CsvAbsent == [kind |-> "absent", header |-> <<>>, rows |-> <<>>]

\* no query has just been called
NoValue == [t |-> "none", v |-> 0]

StoreInit ==
    /\ file \in {FileAbsent, FileCorrupt, FileJson(<<>>)}
    /\ users_list = load_users(file)
    /\ now = 0
    /\ call = NoArgs
    /\ ret = "None"
    /\ deleted = {}
    /\ all_users = NotHeld
    /\ csv_file = CsvAbsent
    /\ answer = NoValue

\* the loops `for user in self.users_list: if user[key] == value` of
\* add_user, get_user_by_id and delete_user: TRUE when the loop reaches an
\* element that is no dict before it reaches a match (user[key] then
\* raises TypeError)
scan_raises(users, key, value) ==
    \E i \in 1..Len(users) :
        /\ ~IsDict(users[i])
        /\ \A k \in 1..(i - 1) : IsDict(users[k]) /\ users[k][key] # value

\* a duplicate check that looks at the most recent user only
email_exists_last_only(users, email) ==
    Len(users) > 0 /\ users[Len(users)].email = email

\* the duplicate check of add_user: some stored user has exactly this email
email_exists(users, email) ==
    \E i \in 1..Len(users) : IsDict(users[i]) /\ users[i].email = email

\* a validation that forgets the sign of the age
add_user_rejects_no_sign(users, name, email, age) ==
    \/ name = "" \/ email = ""
    \/ age.t # "int"
    \/ \E i \in 1..Len(users) : users[i].email = email

\* the validation of add_user: TRUE when add_user returns False early
add_user_rejects(users, name, email, age) ==
    \/ name = "" \/ email = ""                 \* not user_name or not user_email
    \/ age.t # "int" \/ age.v < 0              \* not isinstance(int) or < 0
    \/ email_exists(users, email)

\* an id taken from the count before insertion, without the + 1
new_user_id_off_by_one(users) == Len(users)

\* the id add_user gives a new user
new_user_id(users) == Len(users) + 1

\* the dict add_user builds
new_user(users, name, email, age, t) ==
    [id           |-> new_user_id(users),
     name         |-> name,
     email        |-> email,
     age          |-> age.v,
     created_date |-> isoformat(t),
     is_active    |-> TRUE]

\* a lookup that keeps the last user with that id instead of the first
get_user_by_id_last_match(users, user_id) ==
    IF \E i \in 1..Len(users) : IsDict(users[i]) /\ users[i].id = user_id
    THEN CHOOSE i \in 1..Len(users) :
            /\ IsDict(users[i]) /\ users[i].id = user_id
            /\ \A k \in (i + 1)..Len(users) : ~(IsDict(users[k]) /\ users[k].id = user_id)
    ELSE 0

\* get_user_by_id: position of the first user with that id, 0 for None.
\* The method returns the stored dict itself, so the position stands for it.
get_user_by_id(users, user_id) ==
    IF \E i \in 1..Len(users) : IsDict(users[i]) /\ users[i].id = user_id
    THEN CHOOSE i \in 1..Len(users) :
            /\ IsDict(users[i]) /\ users[i].id = user_id
            /\ \A k \in 1..(i - 1) : ~(IsDict(users[k]) /\ users[k].id = user_id)
    ELSE 0

\* a status update applied to every user instead of the one found
set_status_everyone(users, idx, new_status) ==
    [k \in 1..Len(users) |-> [users[k] EXCEPT !.is_active = new_status]]

\* user['is_active'] = new_status on the dict found by get_user_by_id
set_status(users, idx, new_status) ==
    [users EXCEPT ![idx].is_active = new_status]

\* del self.users_list[i]
del_at(users, i) ==
    [k \in 1..(Len(users) - 1) |-> IF k < i THEN users[k] ELSE users[k + 1]]

\* a delete loop that keeps the last match instead of stopping at the first
delete_index_last(users, user_id) ==
    IF \E i \in 1..Len(users) : users[i].id = user_id
    THEN CHOOSE i \in 1..Len(users) :
            /\ users[i].id = user_id
            /\ \A k \in (i + 1)..Len(users) : users[k].id # user_id
    ELSE 0

\* the index delete_user's enumerate loop stops at, 0 when it runs through
delete_index(users, user_id) == get_user_by_id(users, user_id)

\* add_user raises: the arguments pass the checks of lines 89-93 and the
\* duplicate loop runs into an element that is no dict
add_user_raises(users, name, email, age) ==
    /\ name # "" /\ email # ""
    /\ age.t = "int" /\ age.v >= 0
    /\ scan_raises(users, "email", email)

add_user(name, email, age) ==
    LET c == [NoArgs EXCEPT !.op = "add_user", !.name = name,
                            !.email = email, !.age = age] IN
    IF add_user_raises(users_list, name, email, age)
    THEN /\ call' = c
         /\ ret' = "TypeError"
         /\ UNCHANGED <<users_list, file, now, deleted>>
    ELSE IF add_user_rejects(users_list, name, email, age)
    THEN /\ call' = c
         /\ ret' = "False"
         /\ UNCHANGED <<users_list, file, now, deleted>>
    ELSE /\ now < MaxClock
         /\ \E io \in IoOutcomes :
              LET appended == Append(users_list,
                                     new_user(users_list, name, email, age, now)) IN
              /\ users_list' = appended
              /\ now' = now + 1
              /\ file' = save_users_file(appended, file, io)
              /\ call' = [c EXCEPT !.io = io]
              /\ ret' = AfterSave(io, "True")
              /\ UNCHANGED deleted

update_user_status(user_id, new_status) ==
    LET c == [NoArgs EXCEPT !.op = "update_user_status", !.id = user_id,
                            !.status = new_status]
        user == get_user_by_id(users_list, user_id) IN
    IF scan_raises(users_list, "id", user_id)
    THEN /\ call' = c
         /\ ret' = "TypeError"
         /\ UNCHANGED <<users_list, file, now, deleted>>
    ELSE IF user # 0
    THEN \E io \in IoOutcomes :
            LET updated == set_status(users_list, user, new_status) IN
            /\ users_list' = updated
            /\ file' = save_users_file(updated, file, io)
            /\ call' = [c EXCEPT !.io = io]
            /\ ret' = AfterSave(io, "True")
            /\ UNCHANGED <<now, deleted>>
    ELSE /\ call' = c
         /\ ret' = "False"
         /\ UNCHANGED <<users_list, file, now, deleted>>

delete_user(user_id) ==
    LET c == [NoArgs EXCEPT !.op = "delete_user", !.id = user_id]
        i == delete_index(users_list, user_id) IN
    IF scan_raises(users_list, "id", user_id)
    THEN /\ call' = c
         /\ ret' = "TypeError"
         /\ UNCHANGED <<users_list, file, now, deleted>>
    ELSE IF i # 0
    THEN \E io \in IoOutcomes :
            LET remaining == del_at(users_list, i) IN
            /\ users_list' = remaining
            /\ file' = save_users_file(remaining, file, io)
            /\ call' = [c EXCEPT !.io = io]
            /\ ret' = AfterSave(io, "True")
            /\ deleted' = IF io = "ok" THEN deleted \cup {user_id} ELSE deleted
            /\ UNCHANGED now
    ELSE /\ call' = c
         /\ ret' = "False"
         /\ UNCHANGED <<users_list, file, now, deleted>>

clear_all_users ==
    \E io \in IoOutcomes :
        /\ users_list' = <<>>
        /\ file' = save_users_file(<<>>, file, io)
        /\ call' = [NoArgs EXCEPT !.op = "clear_all_users", !.io = io]
        /\ ret' = AfterSave(io, "None")
        /\ UNCHANGED <<now, deleted>>

save_users ==
    \E io \in IoOutcomes :
        /\ file' = save_users_file(users_list, file, io)
        /\ call' = [NoArgs EXCEPT !.op = "save_users", !.io = io]
        /\ ret' = AfterSave(io, "None")
        /\ UNCHANGED <<users_list, now, deleted>>

\* UserManager(data_file): a manager constructed again on the same file
\* takes the place of the current one
UserManager ==
    /\ users_list' = load_users(file)
    /\ call' = [NoArgs EXCEPT !.op = "__init__"]
    /\ ret' = IF load_users_raises(file) THEN "JSONDecodeError" ELSE "None"
    /\ UNCHANGED <<file, now, deleted>>

----------------------------------------------------------------------------
(* list_ops: Python values, tagged with their type.                        *)

PyNone      == [t |-> "NoneType", v |-> 0]
PyInt(n)    == [t |-> "int",   v |-> n]
PyBool(b)   == [t |-> "bool",  v |-> IF b THEN 1 ELSE 0]
PyStr(s)    == [t |-> "str",   v |-> s]
PyTuple(xs) == [t |-> "tuple", v |-> xs]
PyList(xs)  == [t |-> "list",  v |-> xs]
\* a dict is its items, (key, value) tuples in insertion order
PyDict(kvs) == [t |-> "dict",  v |-> kvs]

\* bool is a subclass of int: True == 1 and hash(True) == hash(1)
IsNum(x) == x.t \in {"int", "bool"}

\* Python's ==
RECURSIVE PyEq(_, _)
PyEq(a, b) ==
    IF IsNum(a) /\ IsNum(b) THEN a.v = b.v
    ELSE IF a.t # b.t THEN FALSE
    ELSE CASE a.t \in {"tuple", "list"} ->
                /\ Len(a.v) = Len(b.v)
                /\ \A i \in 1..Len(a.v) : PyEq(a.v[i], b.v[i])
           [] a.t = "dict" ->
                /\ Len(a.v) = Len(b.v)
                /\ \A i \in 1..Len(a.v) : \E k \in 1..Len(b.v) : PyEq(a.v[i], b.v[k])
           [] OTHER -> a.v = b.v

\* hash(x) succeeds: lists and dicts are unhashable, a tuple is hashable
\* when all its elements are
RECURSIVE Hashable(_)
Hashable(x) ==
    CASE x.t \in {"list", "dict"} -> FALSE
      [] x.t = "tuple" -> \A i \in 1..Len(x.v) : Hashable(x.v[i])
      [] OTHER -> TRUE

\* sorted(item.items()): the (key, value) tuples in increasing key order.
\* The dicts of this model have numeric keys, which Python can order.
RECURSIVE sorted_items(_)
sorted_items(kvs) ==
    IF kvs = <<>> THEN <<>>
    ELSE LET m == CHOOSE i \in 1..Len(kvs) :
                     \A k \in 1..Len(kvs) : kvs[i].v[1].v <= kvs[k].v[1].v
         IN <<kvs[m]>> \o sorted_items(del_at(kvs, m))

\* the key remove_duplicates looks up in `seen` for an item
item_key(item) ==
    CASE item.t = "list" -> PyTuple(item.v)                   \* tuple(item)
      [] item.t = "dict" -> PyTuple(sorted_items(item.v))     \* tuple(sorted(item.items()))
      [] OTHER           -> item

\* item_key in seen
in_seen(key, seen) == \E k \in seen : PyEq(k, key)

\* outcomes of a call
Returned(items) == [kind |-> "return", exc |-> "", alias |-> FALSE, items |-> items]
Raised(exc)     == [kind |-> "raise", exc |-> exc, alias |-> FALSE, items |-> <<>>]

\* the for loop of remove_duplicates over the rest of the list; hashing an
\* unhashable key (seen lookup) raises TypeError
RECURSIVE dedup_loop(_, _, _)
dedup_loop(rest, seen, unique_items) ==
    IF rest = <<>> THEN Returned(unique_items)
    ELSE LET item == Head(rest)
             key  == item_key(item) IN
         IF ~Hashable(key) THEN Raised("TypeError")
         ELSE IF in_seen(key, seen)
              THEN dedup_loop(Tail(rest), seen, unique_items)
              ELSE dedup_loop(Tail(rest), seen \cup {key}, Append(unique_items, item))

\* a version that tests isinstance before None, so that None is reported
\* as a wrong type
remove_duplicates_type_first(l) ==
    IF l.t # "list" THEN Raised("TypeError")
    ELSE IF l.v = <<>> THEN Returned(<<>>)
    ELSE dedup_loop(l.v, {}, <<>>)

\* a version whose loop stops one element early
remove_duplicates_drops_last(l) ==
    IF l.t = "NoneType" THEN Raised("ValueError")
    ELSE IF l.t # "list" THEN Raised("TypeError")
    ELSE IF l.v = <<>> THEN Returned(<<>>)
    ELSE dedup_loop(SubSeq(l.v, 1, Len(l.v) - 1), {}, <<>>)

\* remove_duplicates(my_list); the list returned is always a fresh one
\* (alias = FALSE: it is not the argument object)
remove_duplicates(l) ==
    IF l.t = "NoneType" THEN Raised("ValueError")
    ELSE IF l.t # "list" THEN Raised("TypeError")
    ELSE IF l.v = <<>> THEN Returned(<<>>)
    ELSE dedup_loop(l.v, {}, <<>>)

\* the for loop of remove_duplicates_simple: the item itself is the key
RECURSIVE simple_loop(_, _, _)
simple_loop(rest, seen, unique_items) ==
    IF rest = <<>> THEN Returned(unique_items)
    ELSE LET item == Head(rest) IN
         IF ~Hashable(item) THEN Raised("TypeError")
         ELSE IF in_seen(item, seen)
              THEN simple_loop(Tail(rest), seen, unique_items)
              ELSE simple_loop(Tail(rest), seen \cup {item}, Append(unique_items, item))

\* a version that never finds an item in seen
remove_duplicates_simple_no_seen(l) ==
    IF l.t = "NoneType" THEN Raised("ValueError")
    ELSE IF l.t # "list" THEN Raised("TypeError")
    ELSE Returned(l.v)

\* remove_duplicates_simple(my_list)
remove_duplicates_simple(l) ==
    IF l.t = "NoneType" THEN Raised("ValueError")
    ELSE IF l.t # "list" THEN Raised("TypeError")
    ELSE IF l.v = <<>> THEN Returned(<<>>)
    ELSE simple_loop(l.v, {}, <<>>)

\* list elements tried: 1, True, "a", (1, 2), [1, 2], [[1, 2]],
\* {1: 2, 2: 1} and the same dict built in the other order
Elems ==
    LET one == PyInt(1)
        two == PyInt(2) IN
    << one, PyBool(TRUE), PyStr("a"),
       PyTuple(<<one, two>>), PyList(<<one, two>>),
       PyList(<<PyList(<<one, two>>)>>),
       PyDict(<<PyTuple(<<one, two>>), PyTuple(<<two, one>>)>>),
       PyDict(<<PyTuple(<<two, one>>), PyTuple(<<one, two>>)>>) >>

\* the lists of at most MaxLen elements
Lists ==
    UNION { { PyList([i \in 1..n |-> Elems[f[i]]]) : f \in [1..n -> 1..Len(Elems)] }
            : n \in 0..MaxLen }

\* arguments tried: every such list, None, a str, an int and the tuple (1, 1)
Arguments ==
    Lists \cup {PyNone, PyStr("not a list"), PyInt(42),
                PyTuple(<<PyInt(1), PyInt(1)>>)}

DedupIdle == PyList(<<>>)
\* result.fn names the function called ("none" before the call), result.out
\* is what it returned or raised
ResultIdle == [fn |-> "none", out |-> Returned(<<>>)]

Init ==
    /\ StoreInit
    /\ my_list = DedupIdle
    /\ result = ResultIdle

\* a call on the manager other than get_all_users and export_users_to_csv:
\* the caller holds no list, and no export file is being looked at
NoCaller ==
    /\ all_users' = NotHeld
    /\ csv_file' = CsvAbsent
    /\ answer' = NoValue
    /\ UNCHANGED dedupVars

Next ==
    \/ \E name \in Names, email \in Emails, age \in Ages :
          add_user(name, email, age) /\ NoCaller
    \/ \E user_id \in 1..MaxId, new_status \in BOOLEAN :
          update_user_status(user_id, new_status) /\ NoCaller
    \/ \E user_id \in 1..MaxId : delete_user(user_id) /\ NoCaller
    \/ clear_all_users /\ NoCaller
    \/ save_users /\ NoCaller

Spec == Init /\ [][Next]_vars

\* a user object as an earlier run left it in the data file
StoredUser ==
    json_dump_user([id |-> 1, name |-> "An", email |-> "an@example.com",
                    age |-> 30, created_date |-> isoformat(-1),
                    is_active |-> TRUE])

\* data files the manager is constructed on: none, one that is not JSON,
\* arrays of user objects, and arrays holding a number where a user
\* object is expected
InitialFiles ==
    {FileAbsent, FileCorrupt, FileJson(<<>>), FileJson(<<StoredUser>>),
     FileJson(<<JsonNumber(1)>>), FileJson(<<StoredUser, JsonNumber(1)>>)}

LoadInit ==
    /\ file \in InitialFiles
    /\ users_list = load_users(file)
    /\ now = 0
    /\ call = [NoArgs EXCEPT !.op = "__init__"]
    /\ ret = "None"
    /\ deleted = {}
    /\ all_users = NotHeld
    /\ csv_file = CsvAbsent
    /\ answer = NoValue
    /\ my_list = DedupIdle
    /\ result = ResultIdle

LoadNext ==
    \/ \E email \in Emails :
          add_user("An", email, [t |-> "int", v |-> 30]) /\ NoCaller
    \/ \E user_id \in 1..MaxId, new_status \in BOOLEAN :
          update_user_status(user_id, new_status) /\ NoCaller
    \/ \E user_id \in 1..MaxId : delete_user(user_id) /\ NoCaller
    \/ clear_all_users /\ NoCaller
    \/ save_users /\ NoCaller
    \/ UserManager /\ NoCaller

SpecLoad == LoadInit /\ [][LoadNext]_vars

\* self.users_list.copy(): a new list whose items are the store's own
\* dicts; [ref |-> i] is the dict at position i of users_list
list_copy(users) == [i \in 1..Len(users) |-> [ref |-> i]]

\* a dict the caller made, which the store does not hold
ForeignDict == [ref |-> 0]

get_all_users ==
    /\ all_users' = [held |-> TRUE, items |-> list_copy(users_list)]
    /\ call' = [NoArgs EXCEPT !.op = "get_all_users"]
    /\ ret' = "list"
    /\ csv_file' = CsvAbsent
    /\ answer' = NoValue
    /\ UNCHANGED <<users_list, file, now, deleted, dedupVars>>

\* all_users.append({...}) on the list get_all_users returned
all_users_append ==
    /\ all_users.held
    /\ Len(all_users.items) < MaxLen
    /\ all_users' = [all_users EXCEPT !.items = Append(@, ForeignDict)]
    /\ call' = [NoArgs EXCEPT !.op = "all_users.append"]
    /\ ret' = "None"
    /\ UNCHANGED <<users_list, file, now, deleted, csv_file, answer, dedupVars>>

\* all_users.pop() on the list get_all_users returned
all_users_pop ==
    /\ all_users.held
    /\ all_users.items # <<>>
    /\ all_users' = [all_users EXCEPT !.items = SubSeq(@, 1, Len(@) - 1)]
    /\ call' = [NoArgs EXCEPT !.op = "all_users.pop"]
    /\ ret' = "None"
    /\ UNCHANGED <<users_list, file, now, deleted, csv_file, answer, dedupVars>>

\* all_users[k]['is_active'] = value on the list get_all_users returned:
\* the item is the store's dict, so the assignment lands in users_list
all_users_set_is_active(k, value) ==
    /\ all_users.held
    /\ k \in 1..Len(all_users.items)
    /\ all_users.items[k] # ForeignDict
    /\ users_list' = set_status(users_list, all_users.items[k].ref, value)
    /\ call' = [NoArgs EXCEPT !.op = "all_users[k]['is_active']",
                              !.id = k, !.status = value]
    /\ ret' = "None"
    /\ UNCHANGED <<all_users, file, now, deleted, csv_file, answer, dedupVars>>

\* self.users_list[0].keys(), in the order add_user builds the dict
fieldnames == <<"id", "name", "email", "age", "created_date", "is_active">>

\* the text csv.DictWriter writes for a value: str(value)
csv_cell(value) == <<"str", value>>

csv_row(user) == [k \in 1..Len(fieldnames) |-> csv_cell(user[fieldnames[k]])]

\* an export that does not look at the store being empty
export_returns_ignores_empty(users, io) ==
    IF io = "ok" THEN "True" ELSE "False"

\* what export_users_to_csv returns: False for an empty store, False
\* when anything inside the try block raises, True otherwise
export_returns(users, io) ==
    IF users = <<>> THEN "False"
    ELSE IF io = "ok" /\ \A i \in 1..Len(users) : IsDict(users[i]) THEN "True"
    ELSE "False"

\* the output file after export_users_to_csv: not created on an empty
\* store or when open fails, complete when the call returns True, and cut
\* short when a write or a row raises
export_csv_file(users, io) ==
    IF users = <<>> \/ io = "open_fails" THEN CsvAbsent
    ELSE IF export_returns(users, io) = "True"
    THEN [kind |-> "csv", header |-> fieldnames,
          rows |-> [i \in 1..Len(users) |-> csv_row(users[i])]]
    ELSE [kind |-> "partial", header |-> <<>>, rows |-> <<>>]

\* export_users_to_csv(output_file); io is what opening and writing
\* output_file, a path not used before, comes to
export_users_to_csv(io) ==
    /\ csv_file' = export_csv_file(users_list, io)
    /\ call' = [NoArgs EXCEPT !.op = "export_users_to_csv", !.io = io]
    /\ ret' = export_returns(users_list, io)
    /\ all_users' = NotHeld
    /\ answer' = NoValue
    /\ UNCHANGED <<users_list, file, now, deleted, dedupVars>>

CallerNext ==
    \/ \E email \in Emails \ {""} :
          add_user("An", email, [t |-> "int", v |-> 30]) /\ NoCaller
    \/ \E user_id \in 1..MaxId, new_status \in BOOLEAN :
          update_user_status(user_id, new_status) /\ NoCaller
    \/ \E user_id \in 1..MaxId : delete_user(user_id) /\ NoCaller
    \/ clear_all_users /\ NoCaller
    \/ get_all_users
    \/ all_users_append
    \/ all_users_pop
    \/ \E k \in 1..MaxLen, value \in BOOLEAN : all_users_set_is_active(k, value)
    \/ \E io \in IoOutcomes : export_users_to_csv(io)

SpecCaller == Init /\ [][CallerNext]_vars

----------------------------------------------------------------------------
(* The query methods, whose return value is kept in `answer`. A list or a  *)
(* dict they return is made of the store's own dicts, [ref |-> i] as for   *)
(* get_all_users.                                                          *)

\* the characters of the names and search terms of the model
str_chars(s) ==
    CASE s = ""     -> <<>>
      [] s = "An"   -> <<"A", "n">>
      [] s = "Binh" -> <<"B", "i", "n", "h">>
      [] s = "an"   -> <<"a", "n">>
      [] s = "N"    -> <<"N">>
      [] s = "h"    -> <<"h">>

\* str.lower, one character
lower_char(c) ==
    CASE c = "A" -> "a"
      [] c = "B" -> "b"
      [] c = "N" -> "n"
      [] OTHER   -> c

\* str.lower, as a sequence of characters
str_lower(s) == [i \in 1..Len(str_chars(s)) |-> lower_char(str_chars(s)[i])]

\* needle in haystack, on sequences of characters
str_in(needle, haystack) ==
    \E k \in 0..(Len(haystack) - Len(needle)) :
        SubSeq(haystack, k + 1, k + Len(needle)) = needle

\* a loop over all of users_list that reads a key of each user raises
\* TypeError when an element is no dict
query_raises(users) == \E i \in 1..Len(users) : ~IsDict(users[i])

\* an age filter that leaves out the upper bound
get_users_by_age_range_exclusive(users, min_age, max_age) ==
    IF min_age > max_age THEN <<>>
    ELSE SelectSeq(list_copy(users),
                   LAMBDA r : min_age <= users[r.ref].age /\ users[r.ref].age < max_age)

\* the users the loop appends to result_list, in store order
get_users_by_age_range(users, min_age, max_age) ==
    IF min_age > max_age THEN <<>>
    ELSE SelectSeq(list_copy(users),
                   LAMBDA r : min_age <= users[r.ref].age /\ users[r.ref].age <= max_age)

\* a search that compares the term as typed with the name as stored
search_users_by_name_exact_case(users, search_term) ==
    IF search_term = "" THEN <<>>
    ELSE SelectSeq(list_copy(users),
                   LAMBDA r : str_in(str_chars(search_term),
                                     str_chars(users[r.ref].name)))

\* the users the loop appends to results, in store order
search_users_by_name(users, search_term) ==
    IF search_term = "" THEN <<>>
    ELSE SelectSeq(list_copy(users),
                   LAMBDA r : str_in(str_lower(search_term),
                                     str_lower(users[r.ref].name)))

\* a count of every user, active or not
get_active_users_count_all(users) == Len(users)

\* sum(1 for user in self.users_list if user['is_active'])
get_active_users_count(users) ==
    Len(SelectSeq(list_copy(users), LAMBDA r : users[r.ref].is_active))

\* len(self.users_list)
get_user_count(users) == Len(users)

\* a query that saves the list on its way out
QueryFrame_saves ==
    /\ all_users' = NotHeld
    /\ csv_file' = CsvAbsent
    /\ file' = FileJson(json_dump(users_list))
    /\ UNCHANGED <<users_list, now, deleted, dedupVars>>

\* a query leaves the store, the file and the clock alone
QueryFrame ==
    /\ all_users' = NotHeld
    /\ csv_file' = CsvAbsent
    /\ UNCHANGED <<users_list, file, now, deleted, dedupVars>>

CallGetUserById(user_id) ==
    LET user == get_user_by_id(users_list, user_id) IN
    /\ call' = [NoArgs EXCEPT !.op = "get_user_by_id", !.id = user_id]
    /\ IF scan_raises(users_list, "id", user_id)
       THEN ret' = "TypeError" /\ answer' = NoValue
       ELSE IF user # 0
       THEN ret' = "dict" /\ answer' = [t |-> "dict", v |-> [ref |-> user]]
       ELSE ret' = "None" /\ answer' = PyNone
    /\ QueryFrame

CallGetUsersByAgeRange(min_age, max_age) ==
    /\ call' = [NoArgs EXCEPT !.op = "get_users_by_age_range",
                              !.min_age = min_age, !.max_age = max_age]
    /\ IF min_age <= max_age /\ query_raises(users_list)
       THEN ret' = "TypeError" /\ answer' = NoValue
       ELSE /\ ret' = "list"
            /\ answer' = PyList(get_users_by_age_range(users_list, min_age, max_age))
    /\ QueryFrame

CallSearchUsersByName(search_term) ==
    /\ call' = [NoArgs EXCEPT !.op = "search_users_by_name",
                              !.search_term = search_term]
    /\ IF search_term # "" /\ query_raises(users_list)
       THEN ret' = "TypeError" /\ answer' = NoValue
       ELSE /\ ret' = "list"
            /\ answer' = PyList(search_users_by_name(users_list, search_term))
    /\ QueryFrame

CallGetActiveUsersCount ==
    /\ call' = [NoArgs EXCEPT !.op = "get_active_users_count"]
    /\ IF query_raises(users_list)
       THEN ret' = "TypeError" /\ answer' = NoValue
       ELSE ret' = "int" /\ answer' = PyInt(get_active_users_count(users_list))
    /\ QueryFrame

CallGetUserCount ==
    /\ call' = [NoArgs EXCEPT !.op = "get_user_count"]
    /\ ret' = "int"
    /\ answer' = PyInt(get_user_count(users_list))
    /\ QueryFrame

\* the users added in SpecQuery: (name, email, age)
QueryPeople ==
    {<<"An", "an@example.com", 20>>, <<"Binh", "AN@example.com", 40>>}

\* bounds of the age ranges asked for
QueryAges == {20, 40}

\* search terms: none, one in another case than the stored name, a
\* capital that is in both names in lower case, a letter of one name
QueryTerms == {"", "an", "N", "h"}

QueryNext ==
    \/ \E p \in QueryPeople :
          add_user(p[1], p[2], [t |-> "int", v |-> p[3]]) /\ NoCaller
    \/ \E user_id \in 1..MaxId, new_status \in BOOLEAN :
          update_user_status(user_id, new_status) /\ NoCaller
    \/ \E user_id \in 1..MaxId : delete_user(user_id) /\ NoCaller
    \/ clear_all_users /\ NoCaller
    \/ UserManager /\ NoCaller
    \/ \E user_id \in 1..(MaxId + 1) : CallGetUserById(user_id)
    \/ \E min_age, max_age \in QueryAges : CallGetUsersByAgeRange(min_age, max_age)
    \/ \E search_term \in QueryTerms : CallSearchUsersByName(search_term)
    \/ CallGetActiveUsersCount
    \/ CallGetUserCount
    \/ get_all_users
    \/ \E io \in IoOutcomes : export_users_to_csv(io)

SpecQuery == Init /\ [][QueryNext]_vars

\* a call of remove_duplicates on the current argument
CallRemoveDuplicates ==
    /\ result.fn = "none"
    /\ result' = [fn |-> "remove_duplicates", out |-> remove_duplicates(my_list)]
    /\ UNCHANGED my_list      \* the function never assigns to or mutates my_list

\* a call of remove_duplicates_simple on the current argument
CallRemoveDuplicatesSimple ==
    /\ result.fn = "none"
    /\ result' = [fn |-> "remove_duplicates_simple",
                  out |-> remove_duplicates_simple(my_list)]
    /\ UNCHANGED my_list

\* remove_duplicates called on the list its first call returned
CallRemoveDuplicatesAgain ==
    /\ result.fn = "remove_duplicates"
    /\ result.out.kind = "return"
    /\ my_list' = PyList(result.out.items)
    /\ result' = [fn |-> "remove_duplicates_again",
                  out |-> remove_duplicates(PyList(result.out.items))]

DedupInit ==
    /\ my_list \in Arguments
    /\ result = ResultIdle
    /\ file = FileAbsent
    /\ users_list = load_users(file)
    /\ now = 0
    /\ call = NoArgs
    /\ ret = "None"
    /\ deleted = {}
    /\ all_users = NotHeld
    /\ csv_file = CsvAbsent
    /\ answer = NoValue

DedupNext ==
    \/ CallRemoveDuplicates /\ UNCHANGED <<storeVars, callerVars>>
    \/ CallRemoveDuplicatesSimple /\ UNCHANGED <<storeVars, callerVars>>
    \/ CallRemoveDuplicatesAgain /\ UNCHANGED <<storeVars, callerVars>>

SpecDedup == DedupInit /\ [][DedupNext]_vars


----------------------------------------------------------------------------
(* Properties of UserManager (checked under Spec).                         *)

Ids(users) == {users[i].id : i \in 1..Len(users)}

\* C1: starting from an empty store, after any sequence of add,
\* update_status, delete and clear, no two records of the store have the
\* same email (exact string comparison).
C1_EmailsUnique ==
    \A i, k \in 1..Len(users_list) :
        i # k => users_list[i].email # users_list[k].email

\* C1 witness: the store holds two records and an add that passed every
\* other validation was turned down for its email.
C1_Witness ==
    /\ Len(users_list) = 2
    /\ call.op = "add_user" /\ ret = "False"
    /\ call.name # "" /\ call.age = [t |-> "int", v |-> 30]
    /\ \E i \in 1..2 : users_list[i].email = call.email

\* C2 (as claimed): every record's id is a positive integer and no two
\* records of the store have the same id.
C2_IdsPositiveUnique ==
    /\ \A i \in 1..Len(users_list) : users_list[i].id >= 1
    /\ \A i, k \in 1..Len(users_list) :
          i # k => users_list[i].id # users_list[k].id

\* C3 (as claimed): once delete(k) has removed the record with id k, no
\* later successful add gives id k to the record it creates (the record a
\* successful add has just appended is the last one).
C3_DeletedIdNotReused ==
    (call.op = "add_user" /\ ret = "True")
        => users_list[Len(users_list)].id \notin deleted

\* the arguments of an add that pass its validation of name, email and age
ValidAddInput(c) ==
    c.name # "" /\ c.email # "" /\ c.age.t = "int" /\ c.age.v >= 0

IdsSequential(users) == \A i \in 1..Len(users) : users[i].id = i

\* C6: a successful add on a store of n records appends exactly one record
\* at the end, with id = n + 1, is_active = true and the given name, email
\* and age, leaves the n existing records and their order unchanged and
\* returns success; so successive successful adds on an empty store yield
\* ids 1..n in store order (each add keeps the ids sequential).
C6_AddAppends ==
    [][ (call'.op = "add_user" /\ ret' = "True") =>
          LET n == Len(users_list) IN
          /\ Len(users_list') = n + 1
          /\ SubSeq(users_list', 1, n) = users_list
          /\ users_list'[n + 1].id = n + 1
          /\ users_list'[n + 1].is_active = TRUE
          /\ users_list'[n + 1].name = call'.name
          /\ users_list'[n + 1].email = call'.email
          /\ users_list'[n + 1].age = call'.age.v
          /\ (IdsSequential(users_list) => IdsSequential(users_list')) ]_vars

\* C6 witness: a second successful add, on a store that held one record,
\* left ids 1, 2 in store order.
C6_Witness ==
    /\ call.op = "add_user" /\ ret = "True"
    /\ Len(users_list) = 2
    /\ users_list[1].id = 1 /\ users_list[2].id = 2

\* C7: immediately after every add, update_status, delete or clear that
\* returns without error and changed the store (True from the three
\* boolean methods, None from clear), the backing file holds the full
\* in-memory sequence.
C7_FileMirrorsMemory ==
    (\/ call.op \in {"add_user", "update_user_status", "delete_user"} /\ ret = "True"
     \/ call.op = "clear_all_users" /\ ret = "None")
        => (file.kind = "json" /\ json_load(file.data) = users_list)

\* C7 witness: a status update returned True on a store of two records,
\* one of them now inactive.
C7_Witness ==
    /\ call.op = "update_user_status" /\ ret = "True"
    /\ Len(users_list) = 2
    /\ \E i \in 1..2 : ~users_list[i].is_active

\* what delete_user(id) does to memory when a record has that id (i is
\* the first position holding it), and what it leaves alone otherwise
DeleteEffect ==
    IF call'.id \in Ids(users_list)
    THEN \E i \in 1..Len(users_list) :
            /\ users_list[i].id = call'.id
            /\ \A k \in 1..(i - 1) : users_list[k].id # call'.id
            /\ Len(users_list') = Len(users_list) - 1
            /\ \A k \in 1..(i - 1) : users_list'[k] = users_list[k]
            /\ \A k \in i..Len(users_list') : users_list'[k] = users_list[k + 1]
    ELSE /\ ret' = "False"
         /\ users_list' = users_list
         /\ file' = file

\* C8 (as claimed): delete(id) on a store that contains a record with that
\* id removes exactly one record, the first in store order whose id
\* matches, leaves every other record (its id included) and the order of
\* the rest unchanged, lowers count() by one and returns success; with no
\* such record it returns failure and leaves memory and file unchanged.
C8_DeleteAlwaysSucceeds ==
    [][ call'.op = "delete_user" =>
          /\ DeleteEffect
          /\ (call'.id \in Ids(users_list) => ret' = "True") ]_vars

\* C8 (amended): the same effect on memory, and delete returns success
\* exactly when the save that follows the removal went through; when the
\* save fails the record is removed all the same and the I/O error reaches
\* the caller (never a boolean failure).
C8_DeleteFrame ==
    [][ call'.op = "delete_user" =>
          /\ DeleteEffect
          /\ (call'.id \in Ids(users_list) =>
                /\ (call'.io = "ok" => ret' = "True")
                /\ (call'.io # "ok" => ret' = "IOError")) ]_vars

\* C8 witness: a delete returned True and left behind another record.
C8_Witness ==
    /\ call.op = "delete_user" /\ ret = "True"
    /\ Len(users_list) = 1
    /\ users_list[1].id # call.id

\* what update_user_status(id, active) does to memory when a record has
\* that id (i is the first position holding it), and what it leaves alone
\* otherwise
UpdateEffect ==
    IF call'.id \in Ids(users_list)
    THEN /\ \E i \in 1..Len(users_list) :
              /\ users_list[i].id = call'.id
              /\ \A k \in 1..(i - 1) : users_list[k].id # call'.id
              /\ Len(users_list') = Len(users_list)
              /\ \A k \in 1..Len(users_list) :
                    k # i => users_list'[k] = users_list[k]
              /\ users_list'[i] = [users_list[i] EXCEPT !.is_active = call'.status]
         /\ users_list'[get_user_by_id(users_list', call'.id)].is_active
               = call'.status
    ELSE /\ ret' = "False"
         /\ users_list' = users_list
         /\ file' = file

\* C9 (as claimed): update_status(id, active) on a store containing a
\* record with that id sets is_active of the first matching record to
\* active and returns success, after which get_by_id(id).is_active equals
\* active; it changes no other field and no other record, nor the number
\* and order of records. With no such record it returns failure and leaves
\* memory and file unchanged.
C9_UpdateAlwaysSucceeds ==
    [][ call'.op = "update_user_status" =>
          /\ UpdateEffect
          /\ (call'.id \in Ids(users_list) => ret' = "True") ]_vars

\* C9 (amended): the same effect on memory, and update_status returns
\* success exactly when the save that follows the assignment went through;
\* when the save fails is_active is changed all the same and the I/O error
\* reaches the caller (never a boolean failure).
C9_UpdateStatusFrame ==
    [][ call'.op = "update_user_status" =>
          /\ UpdateEffect
          /\ (call'.id \in Ids(users_list) =>
                /\ (call'.io = "ok" => ret' = "True")
                /\ (call'.io # "ok" => ret' = "IOError")) ]_vars

\* C9 witness: an update returned True after deactivating one of two
\* records, the other one still active.
C9_Witness ==
    /\ call.op = "update_user_status" /\ ret = "True" /\ call.status = FALSE
    /\ Len(users_list) = 2
    /\ \E i \in 1..2 : users_list[i].is_active /\ users_list[i].id # call.id

\* C10: when the backing file cannot be written, save fails with an I/O
\* error that reaches the caller of save, add, update_status, delete or
\* clear, instead of a boolean failure result.
C10_IOErrorPropagates ==
    call.io \in {"open_fails", "write_fails"} => ret = "IOError"

\* C10 witness: clear ran into a file it could not open for writing and
\* gave its caller the I/O error.
C10_Witness ==
    /\ call.op = "clear_all_users" /\ call.io = "open_fails"
    /\ ret = "IOError"

\* C16 (as claimed): immediately after an add that returns success,
\* get_by_id called with the id given to the new record returns that new
\* record, the last one of the store, with the name, email and age just
\* passed to add.
C16_AddedRecordFoundById ==
    (call.op = "add_user" /\ ret = "True")
        => LET n == Len(users_list)
               found == get_user_by_id(users_list, users_list[n].id) IN
           /\ found = n
           /\ users_list[found].name = call.name
           /\ users_list[found].email = call.email
           /\ users_list[found].age = call.age.v

\* str.lower on the strings of the model
lower(s) == IF s = "AN@example.com" THEN "an@example.com" ELSE s

\* C17 (as claimed): an add whose email differs from a stored record's
\* email only in letter case returns failure and leaves the store as it
\* was.
C17_AddRejectsCaseVariantEmail ==
    [][ (/\ call'.op = "add_user"
         /\ ValidAddInput(call')
         /\ \E i \in 1..Len(users_list) :
               /\ users_list[i].email # call'.email
               /\ lower(users_list[i].email) = lower(call'.email))
          => (ret' = "False" /\ users_list' = users_list) ]_vars

----------------------------------------------------------------------------
(* Properties of UserManager on an existing data file (under SpecLoad).    *)

\* C11 (as claimed): whatever the data file held at construction (nothing,
\* invalid JSON, or any valid JSON value) and whatever operations follow,
\* the only error that escapes an operation is the I/O error of save;
\* validation failures of add, update_status and delete come back as a
\* boolean, never as an exception.
C11_OnlyIOErrorEscapes ==
    ret \in {"None", "True", "False", "IOError"}

\* C12: constructing a store when the backing file is absent, or when its
\* content is not valid JSON, yields an empty in-memory sequence and
\* surfaces no error; the caller sees the same outcome in both cases.
C12_LoadMissingOrCorrupt ==
    (call.op = "__init__" /\ file.kind \in {"absent", "corrupt"})
        => (users_list = <<>> /\ ret = "None")

\* C12 witness: a store constructed on a file that a failed write left
\* truncated, after users had been added.
C12_Witness ==
    /\ call.op = "__init__" /\ file.kind = "corrupt"
    /\ now > 0
    /\ users_list = <<>>

\* the data file holds a JSON document that decodes to the list in memory
Mirrored == file.kind = "json" /\ json_load(file.data) = users_list

\* C13: save/load round trip. After any sequence of operations whose last
\* mutation saved successfully, constructing a store on the same file
\* yields the same records, field values and order as the list in memory.
\* Stated step by step: a call whose save succeeds leaves the file decoding
\* to the list in memory; from such a state, every call that does not
\* reach save (a rejected or failing call, or the construction of a store
\* on the file) leaves the list as it was, still matching the file.
C13_SaveLoadRoundTrip ==
    [][ /\ call'.io = "ok" => Mirrored'
        /\ (Mirrored /\ call'.io = "none")
              => (users_list' = users_list /\ Mirrored') ]_vars

\* C13 witness: a store just constructed on a file that holds two user
\* objects, one of them saved as inactive.
C13_Witness ==
    /\ call.op = "__init__" /\ file.kind = "json"
    /\ Len(users_list) = 2
    /\ IsDict(users_list[1]) /\ IsDict(users_list[2])
    /\ ~users_list[1].is_active /\ users_list[2].is_active

----------------------------------------------------------------------------
(* Properties of remove_duplicates (checked under SpecDedup).              *)

\* the elements of xs at the positions where a value occurs for the first
\* time (by ==), in the order of those positions
RECURSIVE FirstOccurrences(_, _)
FirstOccurrences(xs, n) ==
    IF n = 0 THEN <<>>
    ELSE LET before == FirstOccurrences(xs, n - 1) IN
         IF \E k \in 1..(n - 1) : PyEq(xs[k], xs[n])
         THEN before
         ELSE Append(before, xs[n])

\* C4 (as claimed): for every input list S, remove_duplicates(S) returns a
\* new list (S is not modified and is not the object returned) holding each
\* distinct value of S exactly once, ordered by first occurrence in S; an
\* empty input gives an empty output.
C4_DedupContract ==
    [][ (result'.fn = "remove_duplicates" /\ my_list.t = "list") =>
          LET expected == FirstOccurrences(my_list.v, Len(my_list.v))
              out == result'.out IN
          /\ my_list' = my_list
          /\ out.kind = "return"
          /\ ~out.alias
          /\ Len(out.items) = Len(expected)
          /\ \A i \in 1..Len(expected) : PyEq(out.items[i], expected[i]) ]_vars


\* the list the caller holds has the same content as the store
CopyEqualsStore ==
    /\ Len(all_users.items) = Len(users_list)
    /\ \A i \in 1..Len(users_list) : all_users.items[i] = [ref |-> i]

\* C19 (as claimed): all() returns a copy equal to the store's content,
\* and nothing the caller does to the returned value (appending or
\* removing entries, changing a field of a returned record) changes the
\* store's internal state.
C19_AllReturnsDefensiveCopy ==
    [][ /\ call'.op = "get_all_users" => (CopyEqualsStore' /\ users_list' = users_list)
        /\ call'.op \in {"all_users.append", "all_users.pop",
                         "all_users[k]['is_active']"}
              => users_list' = users_list ]_vars

\* C20: export_csv on an empty store returns failure and creates no file;
\* on a store that is not empty it returns failure, without raising, when
\* the target cannot be opened or written, and success when it can.
C20_ExportOutcome ==
    call.op = "export_users_to_csv"
        => /\ users_list = <<>> => (ret = "False" /\ csv_file = CsvAbsent)
           /\ (users_list # <<>> /\ call.io # "ok") => ret = "False"
           /\ (users_list # <<>> /\ call.io = "ok")
                 => (ret = "True" /\ csv_file.kind = "csv")

\* C20 witness: an export of two records to a writable target returned
\* True and wrote two rows.
C20_Witness ==
    /\ call.op = "export_users_to_csv" /\ ret = "True"
    /\ Len(users_list) = 2 /\ Len(csv_file.rows) = 2

IsScalar(x) == x.t \in {"int", "bool", "str", "NoneType"}
IsFlat(x) ==
    CASE x.t = "list" -> \A i \in 1..Len(x.v) : IsScalar(x.v[i])
      [] x.t = "dict" ->
            \A i \in 1..Len(x.v) : IsScalar(x.v[i].v[1]) /\ IsScalar(x.v[i].v[2])
      [] OTHER -> TRUE

\* C15 (as claimed): on a list of scalars, tuples, flat lists and flat
\* dicts, remove_duplicates drops an element exactly when an earlier
\* element equals it by value, and every element of the output is the
\* original first-occurrence element, not its converted key.
C15_DuplicatesAreEqualValues ==
    (/\ result.fn = "remove_duplicates"
     /\ my_list.t = "list"
     /\ \A i \in 1..Len(my_list.v) : IsFlat(my_list.v[i]))
        => /\ result.out.kind = "return"
           /\ result.out.items = FirstOccurrences(my_list.v, Len(my_list.v))

\* C18: remove_duplicates and remove_duplicates_simple raise ValueError for
\* None and TypeError for any other value that is not a list, and return
\* nothing; the check comes before any element is processed, so an
\* iterable that is not a list is rejected too.
C18_RejectsNonLists ==
    result.fn \in {"remove_duplicates", "remove_duplicates_simple"}
        => /\ my_list.t = "NoneType" => result.out = Raised("ValueError")
           /\ my_list.t \notin {"NoneType", "list"}
                 => result.out = Raised("TypeError")

\* C18 witness: remove_duplicates was given None and raised ValueError.
C18_Witness ==
    /\ result.fn = "remove_duplicates"
    /\ my_list = PyNone
    /\ result.out.kind = "raise" /\ result.out.exc = "ValueError"

\* a list whose elements are all hashable and are neither lists nor dicts
PlainHashableList(l) ==
    /\ l.t = "list"
    /\ \A i \in 1..Len(l.v) :
          Hashable(l.v[i]) /\ l.v[i].t \notin {"list", "dict"}

\* C26: on every list whose elements are all directly hashable and are
\* neither lists nor dicts, remove_duplicates_simple returns the same
\* result as remove_duplicates (whichever of the two was called, the other
\* one gives the same list for the same argument).
C26_SimpleAgreesWithGeneral ==
    PlainHashableList(my_list)
        => /\ result.fn = "remove_duplicates_simple"
                 => result.out = remove_duplicates(my_list)
           /\ result.fn = "remove_duplicates"
                 => result.out = remove_duplicates_simple(my_list)

\* C26 witness: remove_duplicates_simple dropped a duplicate from a list
\* of three hashable elements.
C26_Witness ==
    /\ result.fn = "remove_duplicates_simple"
    /\ PlainHashableList(my_list)
    /\ Len(my_list.v) = 3
    /\ result.out.kind = "return" /\ Len(result.out.items) = 2


\* C25: clear() from any reachable state leaves the in-memory sequence
\* empty and, when the save succeeds, leaves the backing file holding an
\* empty array, so that a manager constructed afterwards on that file is
\* empty.
C25_ClearEmptiesStore ==
    call.op = "clear_all_users"
        => /\ users_list = <<>>
           /\ call.io = "ok" => /\ ret = "None"
                                /\ file = FileJson(json_dump(<<>>))
                                /\ load_users(file) = <<>>

\* C25 witness: clear returned after two adds had been made, and the file
\* holds the empty array.
C25_Witness ==
    /\ call.op = "clear_all_users" /\ ret = "None"
    /\ now = 2
    /\ users_list = <<>> /\ file.kind = "json" /\ file.data = <<>>

-----------------------------------------------------------------------------
\* Properties of a failed save (under Spec)

MutatingOps == {"add_user", "update_user_status", "delete_user", "clear_all_users"}

\* the change the operation of this step makes to memory
MutationKept ==
    CASE call'.op = "add_user" ->
            users_list' = Append(users_list,
                new_user(users_list, call'.name, call'.email, call'.age, now))
      [] call'.op = "update_user_status" -> UpdateEffect
      [] call'.op = "delete_user" -> DeleteEffect
      [] call'.op = "clear_all_users" -> users_list' = <<>>

\* C27 (as claimed): when save fails during add, update_status, delete or
\* clear, memory already holds the change of that operation, the backing
\* file still holds its previous content, and memory and file differ.
C27_FailedSaveKeepsFile ==
    [][ (call'.op \in MutatingOps /\ ret' = "IOError") =>
          /\ MutationKept
          /\ file' = file
          /\ ~Mirrored' ]_vars

\* C27 (amended): when save fails during add, update_status, delete or
\* clear, the change is not rolled back: memory holds what the operation
\* does to it. The file holds its previous content when it could not be
\* opened and is left truncated when the write itself failed. Memory and
\* file differ when the write failed, and when the file mirrored memory
\* before and the operation changed memory.
C27_FailedSaveNoRollback ==
    [][ (call'.op \in MutatingOps /\ ret' = "IOError") =>
          /\ MutationKept
          /\ call'.io = "open_fails" => file' = file
          /\ call'.io = "write_fails" => file' = FileCorrupt
          /\ (\/ call'.io = "write_fails"
              \/ Mirrored /\ users_list' # users_list) => ~Mirrored' ]_vars

\* C27 witness: a delete whose save could not open the file removed one
\* of two records from memory while the file still holds both.
C27_Witness ==
    /\ call.op = "delete_user" /\ ret = "IOError" /\ call.io = "open_fails"
    /\ Len(users_list) = 1
    /\ file.kind = "json" /\ Len(json_load(file.data)) = 2

-----------------------------------------------------------------------------
\* Properties of the query methods (under SpecQuery)

\* the list in `answer` is made of users of the store, in store order and
\* without repetition
InStoreOrder ==
    /\ answer.t = "list"
    /\ \A k \in 1..Len(answer.v) : answer.v[k].ref \in 1..Len(users_list)
    /\ \A j, k \in 1..Len(answer.v) : j < k => answer.v[j].ref < answer.v[k].ref

\* user number i of the store is in the list in `answer`
Answered(i) == \E k \in 1..Len(answer.v) : answer.v[k].ref = i

\* C21: get_by_age_range(min, max) returns exactly the stored records
\* whose age satisfies min <= age <= max, both bounds inclusive, in store
\* order, and an empty result whenever min > max.
C21_AgeRangeInclusive ==
    call.op = "get_users_by_age_range"
        => /\ ret = "list"
           /\ InStoreOrder
           /\ \A i \in 1..Len(users_list) :
                 Answered(i) <=> /\ call.min_age <= users_list[i].age
                                 /\ users_list[i].age <= call.max_age
           /\ call.min_age > call.max_age => answer.v = <<>>

\* C21 witness: a range whose upper bound is the age of the second of two
\* records gave back that record only.
C21_Witness ==
    /\ call.op = "get_users_by_age_range"
    /\ Len(users_list) = 2
    /\ users_list[1].age < call.min_age
    /\ users_list[2].age = call.max_age
    /\ answer.v = <<[ref |-> 2]>>

C23_GetByIdFirstMatch ==
    call.op = "get_user_by_id"
        => /\ (ret = "None" /\ answer = PyNone) <=> call.id \notin Ids(users_list)
           /\ call.id \in Ids(users_list) =>
                 /\ ret = "dict" /\ answer.t = "dict"
                 /\ answer.v.ref \in 1..Len(users_list)
                 /\ users_list[answer.v.ref].id = call.id
                 /\ \A k \in 1..(answer.v.ref - 1) : users_list[k].id # call.id

\* C23 witness: the id asked for is held by two records and the first of
\* them came back.
C23_Witness ==
    /\ call.op = "get_user_by_id"
    /\ Len(users_list) = 2
    /\ users_list[1].id = call.id /\ users_list[2].id = call.id
    /\ answer.t = "dict" /\ answer.v.ref = 1

\* the number of stored records whose is_active is true
ActiveRecords(users) == Cardinality({i \in 1..Len(users) : users[i].is_active})

\* C24: count() is the number of records in the store and active_count()
\* the number of stored records whose is_active is true, so that
\* 0 <= active_count() <= count(); a successful add raises both by one,
\* and update_status(id, false) on an active record lowers active_count()
\* by one and leaves count() unchanged.
C24_Counts ==
    [][ /\ call'.op = "get_user_count" => answer' = PyInt(Len(users_list'))
        /\ call'.op = "get_active_users_count" =>
              /\ answer' = PyInt(ActiveRecords(users_list'))
              /\ 0 <= answer'.v /\ answer'.v <= get_user_count(users_list')
        /\ (call'.op = "add_user" /\ ret' = "True") =>
              /\ get_user_count(users_list') = get_user_count(users_list) + 1
              /\ get_active_users_count(users_list')
                    = get_active_users_count(users_list) + 1
        /\ (/\ call'.op = "update_user_status" /\ call'.status = FALSE
            /\ get_user_by_id(users_list, call'.id) # 0
            /\ users_list[get_user_by_id(users_list, call'.id)].is_active) =>
              /\ get_user_count(users_list') = get_user_count(users_list)
              /\ get_active_users_count(users_list')
                    = get_active_users_count(users_list) - 1 ]_vars

\* C24 witness: active_count() gave 1 on a store of two records.
C24_Witness ==
    /\ call.op = "get_active_users_count"
    /\ answer = PyInt(1)
    /\ Len(users_list) = 2

QueryOps ==
    {"get_user_by_id", "get_users_by_age_range", "search_users_by_name",
     "get_active_users_count", "get_user_count", "get_all_users",
     "export_users_to_csv"}

====
